---------------------------- MODULE Spec2Model ----------------------------
(***************************************************************************)
(* searchindex.js of the artella-launcher documentation: one JavaScript    *)
(* statement, Search.setIndex({...}), whose argument is the Sphinx search  *)
(* index written as an object literal.                                     *)
(*                                                                         *)
(* The file is modelled as its token stream (the definitions docnames ..   *)
(* titleterms and searchindex hold the tokens in source order) and the     *)
(* loading of the file as the evaluation of that stream: the callee is     *)
(* resolved, the literal is built property by property, element by         *)
(* element, in source order, and the call hands the finished value to      *)
(* Search.setIndex.  The script is a single statement, so evaluating while *)
(* scanning visits the same states as scanning first and evaluating after. *)
(***************************************************************************)
EXTENDS Integers, Sequences, FiniteSets

VARIABLES
  pc,      \* position of the next token of the script (1-based)
  expect,  \* what the grammar allows at pc
  stack,   \* the object and array literals under construction, innermost last
  callee,  \* the member path of the call being evaluated, <<"Search", "setIndex">>
  arg,     \* the evaluated argument of the call being evaluated
  index,   \* Search._index, the index held by the search widget
  calls    \* every function call the script has made, in order

vars == <<pc, expect, stack, callee, arg, index, calls>>

---------------------------------------------------------------------------
(* Tokens.  A double-quoted string, a bare identifier, an integer literal, *)
(* a punctuator.                                                           *)

Str(s) == [k |-> "str", v |-> s]
Id(s)  == [k |-> "id",  v |-> s]
Num(n) == [k |-> "num", v |-> n]
P(c)   == [k |-> "p",   v |-> c]

---------------------------------------------------------------------------
(* The nine properties of the index literal, token by token.               *)

\* searchindex.js: the property  docnames: ...  of the index literal (47 tokens).
docnames ==
  <<Id("docnames"), P(":"), P("["), Str("artellapipe"), P(","), Str("artellapipe.launcher"),
    P(","), Str("artellapipe.launcher.core"), P(","), Str("artellapipe.launcher.core.config"),
    P(","), Str("artellapipe.launcher.core.dccselector"), P(","),
    Str("artellapipe.launcher.core.defines"), P(","), Str("artellapipe.launcher.core.launcher"),
    P(","), Str("artellapipe.launcher.core.updater"), P(","), Str("artellapipe.launcher.dccs"),
    P(","), Str("artellapipe.launcher.dccs.houdinidcc"), P(","),
    Str("artellapipe.launcher.dccs.mayadcc"), P(","), Str("artellapipe.launcher.dccs.nukedcc"),
    P(","), Str("artellapipe.launcher.dccs.photoshopdcc"), P(","),
    Str("artellapipe.launcher.dccs.substancedesignerdcc"), P(","),
    Str("artellapipe.launcher.dccs.substancepainterdcc"), P(","),
    Str("artellapipe.launcher.dccs.zbrushdcc"), P(","), Str("artellapipe.launcher.utils"),
    P(","), Str("artellapipe.launcher.utils.download"), P(","),
    Str("artellapipe.launcher.widgets"), P(","), Str("artellapipe.launcher.widgets.console"),
    P(","), Str("index"), P(","), Str("modules"), P("]")>>

\* searchindex.js: the property  envversion: ...  of the index literal (47 tokens).
envversion ==
  <<Id("envversion"), P(":"), P("{"), Str("sphinx.domains.c"), P(":"), Num(1), P(","),
    Str("sphinx.domains.changeset"), P(":"), Num(1), P(","), Str("sphinx.domains.citation"),
    P(":"), Num(1), P(","), Str("sphinx.domains.cpp"), P(":"), Num(1), P(","),
    Str("sphinx.domains.javascript"), P(":"), Num(1), P(","), Str("sphinx.domains.math"), P(":"),
    Num(2), P(","), Str("sphinx.domains.python"), P(":"), Num(1), P(","),
    Str("sphinx.domains.rst"), P(":"), Num(1), P(","), Str("sphinx.domains.std"), P(":"), Num(1),
    P(","), Str("sphinx.ext.todo"), P(":"), Num(2), P(","), Id("sphinx"), P(":"), Num(56),
    P("}")>>

\* searchindex.js: the property  filenames: ...  of the index literal (47 tokens).
filenames ==
  <<Id("filenames"), P(":"), P("["), Str("artellapipe.rst"), P(","),
    Str("artellapipe.launcher.rst"), P(","), Str("artellapipe.launcher.core.rst"), P(","),
    Str("artellapipe.launcher.core.config.rst"), P(","),
    Str("artellapipe.launcher.core.dccselector.rst"), P(","),
    Str("artellapipe.launcher.core.defines.rst"), P(","),
    Str("artellapipe.launcher.core.launcher.rst"), P(","),
    Str("artellapipe.launcher.core.updater.rst"), P(","), Str("artellapipe.launcher.dccs.rst"),
    P(","), Str("artellapipe.launcher.dccs.houdinidcc.rst"), P(","),
    Str("artellapipe.launcher.dccs.mayadcc.rst"), P(","),
    Str("artellapipe.launcher.dccs.nukedcc.rst"), P(","),
    Str("artellapipe.launcher.dccs.photoshopdcc.rst"), P(","),
    Str("artellapipe.launcher.dccs.substancedesignerdcc.rst"), P(","),
    Str("artellapipe.launcher.dccs.substancepainterdcc.rst"), P(","),
    Str("artellapipe.launcher.dccs.zbrushdcc.rst"), P(","),
    Str("artellapipe.launcher.utils.rst"), P(","),
    Str("artellapipe.launcher.utils.download.rst"), P(","),
    Str("artellapipe.launcher.widgets.rst"), P(","),
    Str("artellapipe.launcher.widgets.console.rst"), P(","), Str("index.rst"), P(","),
    Str("modules.rst"), P("]")>>

\* searchindex.js: the property  objects: ...  of the index literal (615 tokens).
objects ==
  <<Id("objects"), P(":"), P("{"), Str(""), P(":"), P("{"), Id("artellapipe"), P(":"), P("["),
    Num(0), P(","), Num(0), P(","), Num(0), P(","), Str("-"), P("]"), P("}"), P(","),
    Str("artellapipe.launcher"), P(":"), P("{"), Id("core"), P(":"), P("["), Num(2), P(","),
    Num(0), P(","), Num(0), P(","), Str("-"), P("]"), P(","), Id("create_logger_directory"),
    P(":"), P("["), Num(1), P(","), Num(4), P(","), Num(1), P(","), Str(""), P("]"), P(","),
    Id("dccs"), P(":"), P("["), Num(8), P(","), Num(0), P(","), Num(0), P(","), Str("-"), P("]"),
    P(","), Id("get_dccs_path"), P(":"), P("["), Num(1), P(","), Num(4), P(","), Num(1), P(","),
    Str(""), P("]"), P(","), Id("get_launcher_config_path"), P(":"), P("["), Num(1), P(","),
    Num(4), P(","), Num(1), P(","), Str(""), P("]"), P(","), Id("get_logging_config"), P(":"),
    P("["), Num(1), P(","), Num(4), P(","), Num(1), P(","), Str(""), P("]"), P(","),
    Id("get_updater_config_path"), P(":"), P("["), Num(1), P(","), Num(4), P(","), Num(1),
    P(","), Str(""), P("]"), P(","), Id("init"), P(":"), P("["), Num(1), P(","), Num(4), P(","),
    Num(1), P(","), Str(""), P("]"), P(","), Id("update_paths"), P(":"), P("["), Num(1), P(","),
    Num(4), P(","), Num(1), P(","), Str(""), P("]"), P(","), Id("utils"), P(":"), P("["),
    Num(16), P(","), Num(0), P(","), Num(0), P(","), Str("-"), P("]"), P(","), Id("widgets"),
    P(":"), P("["), Num(18), P(","), Num(0), P(","), Num(0), P(","), Str("-"), P("]"), P("}"),
    P(","), Str("artellapipe.launcher.core"), P(":"), P("{"), Id("config"), P(":"), P("["),
    Num(3), P(","), Num(0), P(","), Num(0), P(","), Str("-"), P("]"), P(","), Id("defines"),
    P(":"), P("["), Num(5), P(","), Num(0), P(","), Num(0), P(","), Str("-"), P("]"), P("}"),
    P(","), Str("artellapipe.launcher.core.config"), P(":"), P("{"), Id("ArtellaLauncherConfig"),
    P(":"), P("["), Num(3), P(","), Num(1), P(","), Num(1), P(","), Str(""), P("]"), P(","),
    Id("create_config"), P(":"), P("["), Num(3), P(","), Num(4), P(","), Num(1), P(","), Str(""),
    P("]"), P(","), Id("get_system_config_directory"), P(":"), P("["), Num(3), P(","), Num(4),
    P(","), Num(1), P(","), Str(""), P("]"), P("}"), P(","),
    Str("artellapipe.launcher.core.config.ArtellaLauncherConfig"), P(":"), P("{"),
    Id("ENVIRONMENTS"), P(":"), P("["), Num(3), P(","), Num(2), P(","), Num(1), P(","), Str(""),
    P("]"), P(","), Id("EXECUTABLES"), P(":"), P("["), Num(3), P(","), Num(2), P(","), Num(1),
    P(","), Str(""), P("]"), P(","), Id("edit"), P(":"), P("["), Num(3), P(","), Num(3), P(","),
    Num(1), P(","), Str(""), P("]"), P(","), Id("staticMetaObject"), P(":"), P("["), Num(3),
    P(","), Num(2), P(","), Num(1), P(","), Str(""), P("]"), P("}"), P(","),
    Str("artellapipe.launcher.dccs"), P(":"), P("{"), Id("nukedcc"), P(":"), P("["), Num(11),
    P(","), Num(0), P(","), Num(0), P(","), Str("-"), P("]"), P(","), Id("photoshopdcc"), P(":"),
    P("["), Num(12), P(","), Num(0), P(","), Num(0), P(","), Str("-"), P("]"), P(","),
    Id("substancedesignerdcc"), P(":"), P("["), Num(13), P(","), Num(0), P(","), Num(0), P(","),
    Str("-"), P("]"), P(","), Id("substancepainterdcc"), P(":"), P("["), Num(14), P(","), Num(0),
    P(","), Num(0), P(","), Str("-"), P("]"), P(","), Id("zbrushdcc"), P(":"), P("["), Num(15),
    P(","), Num(0), P(","), Num(0), P(","), Str("-"), P("]"), P("}"), P(","),
    Str("artellapipe.launcher.dccs.nukedcc"), P(":"), P("{"),
    Id("get_executables_from_installation_path"), P(":"), P("["), Num(11), P(","), Num(4),
    P(","), Num(1), P(","), Str(""), P("]"), P(","), Id("get_installation_paths"), P(":"),
    P("["), Num(11), P(","), Num(4), P(","), Num(1), P(","), Str(""), P("]"), P("}"), P(","),
    Str("artellapipe.launcher.dccs.photoshopdcc"), P(":"), P("{"),
    Id("get_executables_from_installation_path"), P(":"), P("["), Num(12), P(","), Num(4),
    P(","), Num(1), P(","), Str(""), P("]"), P(","), Id("get_installation_paths"), P(":"),
    P("["), Num(12), P(","), Num(4), P(","), Num(1), P(","), Str(""), P("]"), P("}"), P(","),
    Str("artellapipe.launcher.dccs.substancedesignerdcc"), P(":"), P("{"),
    Id("get_executables_from_installation_path"), P(":"), P("["), Num(13), P(","), Num(4),
    P(","), Num(1), P(","), Str(""), P("]"), P(","), Id("get_installation_paths"), P(":"),
    P("["), Num(13), P(","), Num(4), P(","), Num(1), P(","), Str(""), P("]"), P("}"), P(","),
    Str("artellapipe.launcher.dccs.substancepainterdcc"), P(":"), P("{"),
    Id("get_executables_from_installation_path"), P(":"), P("["), Num(14), P(","), Num(4),
    P(","), Num(1), P(","), Str(""), P("]"), P(","), Id("get_installation_paths"), P(":"),
    P("["), Num(14), P(","), Num(4), P(","), Num(1), P(","), Str(""), P("]"), P("}"), P(","),
    Str("artellapipe.launcher.dccs.zbrushdcc"), P(":"), P("{"),
    Id("get_executables_from_installation_path"), P(":"), P("["), Num(15), P(","), Num(4),
    P(","), Num(1), P(","), Str(""), P("]"), P(","), Id("get_installation_paths"), P(":"),
    P("["), Num(15), P(","), Num(4), P(","), Num(1), P(","), Str(""), P("]"), P("}"), P(","),
    Str("artellapipe.launcher.widgets"), P(":"), P("{"), Id("console"), P(":"), P("["), Num(19),
    P(","), Num(0), P(","), Num(0), P(","), Str("-"), P("]"), P("}"), P(","),
    Str("artellapipe.launcher.widgets.console"), P(":"), P("{"), Id("ArtellaLauncherConsole"),
    P(":"), P("["), Num(19), P(","), Num(1), P(","), Num(1), P(","), Str(""), P("]"), P("}"),
    P(","), Str("artellapipe.launcher.widgets.console.ArtellaLauncherConsole"), P(":"), P("{"),
    Id("output_buffer_to_file"), P(":"), P("["), Num(19), P(","), Num(3), P(","), Num(1), P(","),
    Str(""), P("]"), P(","), Id("set_debug_level"), P(":"), P("["), Num(19), P(","), Num(3),
    P(","), Num(1), P(","), Str(""), P("]"), P(","), Id("set_info_level"), P(":"), P("["),
    Num(19), P(","), Num(3), P(","), Num(1), P(","), Str(""), P("]"), P(","),
    Id("staticMetaObject"), P(":"), P("["), Num(19), P(","), Num(2), P(","), Num(1), P(","),
    Str(""), P("]"), P(","), Id("write"), P(":"), P("["), Num(19), P(","), Num(3), P(","),
    Num(1), P(","), Str(""), P("]"), P(","), Id("write_error"), P(":"), P("["), Num(19), P(","),
    Num(3), P(","), Num(1), P(","), Str(""), P("]"), P(","), Id("write_ok"), P(":"), P("["),
    Num(19), P(","), Num(3), P(","), Num(1), P(","), Str(""), P("]"), P("}"), P(","),
    Id("artellapipe"), P(":"), P("{"), Id("launcher"), P(":"), P("["), Num(1), P(","), Num(0),
    P(","), Num(0), P(","), Str("-"), P("]"), P("}"), P("}")>>

\* searchindex.js: the property  objnames: ...  of the index literal (53 tokens).
objnames ==
  <<Id("objnames"), P(":"), P("{"), Str("0"), P(":"), P("["), Str("py"), P(","), Str("module"),
    P(","), Str("Python module"), P("]"), P(","), Str("1"), P(":"), P("["), Str("py"), P(","),
    Str("class"), P(","), Str("Python class"), P("]"), P(","), Str("2"), P(":"), P("["),
    Str("py"), P(","), Str("attribute"), P(","), Str("Python attribute"), P("]"), P(","),
    Str("3"), P(":"), P("["), Str("py"), P(","), Str("method"), P(","), Str("Python method"),
    P("]"), P(","), Str("4"), P(":"), P("["), Str("py"), P(","), Str("function"), P(","),
    Str("Python function"), P("]"), P("}")>>

\* searchindex.js: the property  objtypes: ...  of the index literal (23 tokens).
objtypes ==
  <<Id("objtypes"), P(":"), P("{"), Str("0"), P(":"), Str("py:module"), P(","), Str("1"), P(":"),
    Str("py:class"), P(","), Str("2"), P(":"), Str("py:attribute"), P(","), Str("3"), P(":"),
    Str("py:method"), P(","), Str("4"), P(":"), Str("py:function"), P("}")>>

\* searchindex.js: the property  terms: ...  of the index literal (951 tokens).
terms ==
  <<Id("terms"), P(":"), P("{"), Str("class"), P(":"), P("["), Num(3), P(","), Num(19), P("]"),
    P(","), Str("default"), P(":"), P("["), Num(1), P(","), Num(3), P("]"), P(","),
    Str("function"), P(":"), P("["), Num(11), P(","), Num(12), P(","), Num(13), P(","), Num(14),
    P(","), Num(15), P("]"), P(","), Str("new"), P(":"), Num(19), P(","), Str("return"), P(":"),
    P("["), Num(1), P(","), Num(3), P(","), Num(11), P(","), Num(12), P(","), Num(13), P(","),
    Num(14), P(","), Num(15), P("]"), P(","), Id("add"), P(":"), P("["), Num(1), P(","), Num(19),
    P("]"), P(","), Id("all"), P(":"), Num(5), P(","), Id("applic"), P(":"), Num(3), P(","),
    Id("artella"), P(":"), P("["), Num(1), P(","), Num(3), P(","), Num(19), P("]"), P(","),
    Id("artellalauncherconfig"), P(":"), Num(3), P(","), Id("artellalauncherconsol"), P(":"),
    Num(19), P(","), Id("as_path"), P(":"), Num(3), P(","), Id("base"), P(":"), P("["), Num(3),
    P(","), Num(19), P("]"), P(","), Id("bool"), P(":"), Num(1), P(","), Id("buffer"), P(":"),
    Num(19), P(","), Id("comput"), P(":"), Num(12), P(","), Id("config"), P(":"), P("["), Num(0),
    P(","), Num(1), P(","), Num(2), P("]"), P(","), Id("config_fil"), P(":"), Num(3), P(","),
    Id("configur"), P(":"), P("["), Num(1), P(","), Num(3), P("]"), P(","), Id("consol"), P(":"),
    P("["), Num(0), P(","), Num(1), P(","), Num(3), P(","), Num(18), P("]"), P(","),
    Id("constant"), P(":"), Num(5), P(","), Id("construct"), P(":"), Num(3), P(","),
    Id("contain"), P(":"), P("["), Num(3), P(","), Num(5), P(","), Num(11), P(","), Num(12),
    P(","), Num(13), P(","), Num(14), P(","), Num(15), P(","), Num(19), P("]"), P(","),
    Id("content"), P(":"), P("["), Num(20), P(","), Num(21), P("]"), P(","), Id("core"), P(":"),
    P("["), Num(0), P(","), Num(1), P("]"), P(","), Id("creat"), P(":"), P("["), Num(1), P(","),
    Num(3), P("]"), P(","), Id("create_config"), P(":"), Num(3), P(","),
    Id("create_logger_directori"), P(":"), Num(1), P(","), Id("dcc"), P(":"), P("["), Num(0),
    P(","), Num(1), P("]"), P(","), Id("dcc_install_path"), P(":"), Num(3), P(","),
    Id("dccselector"), P(":"), P("["), Num(0), P(","), Num(1), P(","), Num(2), P("]"), P(","),
    Id("debug"), P(":"), Num(19), P(","), Id("defin"), P(":"), P("["), Num(0), P(","), Num(1),
    P(","), Num(2), P("]"), P(","), Id("definit"), P(":"), Num(5), P(","), Id("design"), P(":"),
    Num(13), P(","), Id("designer_vers"), P(":"), Num(13), P(","), Id("directori"), P(":"),
    P("["), Num(1), P(","), Num(3), P("]"), P(","), Id("do_reload"), P(":"), Num(1), P(","),
    Id("download"), P(":"), P("["), Num(0), P(","), Num(1), P(","), Num(16), P("]"), P(","),
    Id("edit"), P(":"), Num(3), P(","), Id("element"), P(":"), Num(3), P(","), Id("environ"),
    P(":"), Num(3), P(","), Id("error"), P(":"), Num(19), P(","), Id("execut"), P(":"), P("["),
    Num(3), P(","), Num(11), P(","), Num(12), P(","), Num(13), P(","), Num(14), P(","), Num(15),
    P("]"), P(","), Id("fals"), P(":"), P("["), Num(1), P(","), Num(3), P("]"), P(","),
    Id("file"), P(":"), P("["), Num(1), P(","), Num(3), P(","), Num(19), P("]"), P(","),
    Id("filenam"), P(":"), Num(3), P(","), Id("filepath"), P(":"), Num(19), P(","), Id("folder"),
    P(":"), P("["), Num(11), P(","), Num(12), P(","), Num(13), P(","), Num(14), P(","), Num(15),
    P("]"), P(","), Id("from"), P(":"), P("["), Num(3), P(","), Num(11), P(","), Num(12), P(","),
    Num(13), P(","), Num(14), P(","), Num(15), P("]"), P(","), Id("get_dccs_path"), P(":"),
    Num(1), P(","), Id("get_executables_from_installation_path"), P(":"), P("["), Num(11),
    P(","), Num(12), P(","), Num(13), P(","), Num(14), P(","), Num(15), P("]"), P(","),
    Id("get_installation_path"), P(":"), P("["), Num(11), P(","), Num(12), P(","), Num(13),
    P(","), Num(14), P(","), Num(15), P("]"), P(","), Id("get_launcher_config_path"), P(":"),
    Num(1), P(","), Id("get_logging_config"), P(":"), Num(1), P(","),
    Id("get_system_config_directori"), P(":"), Num(3), P(","), Id("get_updater_config_path"),
    P(":"), Num(1), P(","), Id("green"), P(":"), Num(19), P(","), Id("handl"), P(":"), P("["),
    Num(11), P(","), Num(12), P(","), Num(13), P(","), Num(14), P(","), Num(15), P("]"), P(","),
    Id("houdinidcc"), P(":"), P("["), Num(0), P(","), Num(1), P(","), Num(8), P("]"), P(","),
    Id("implement"), P(":"), P("["), Num(3), P(","), Num(19), P("]"), P(","), Id("index"),
    P(":"), Num(20), P(","), Id("info"), P(":"), Num(19), P(","), Id("init"), P(":"), Num(1),
    P(","), Id("initi"), P(":"), P("["), Num(0), P(","), Num(1), P("]"), P(","), Id("instal"),
    P(":"), P("["), Num(11), P(","), Num(12), P(","), Num(13), P(","), Num(14), P(","), Num(15),
    P("]"), P(","), Id("installation_path"), P(":"), P("["), Num(11), P(","), Num(12), P(","),
    Num(13), P(","), Num(14), P(","), Num(15), P("]"), P(","), Id("its"), P(":"), P("["),
    Num(11), P(","), Num(12), P(","), Num(13), P(","), Num(14), P(","), Num(15), P("]"), P(","),
    Id("launcher"), P(":"), P("["), Num(0), P(","), Num(21), P("]"), P(","), Id("launcher_nam"),
    P(":"), Num(3), P(","), Id("level"), P(":"), Num(19), P(","), Id("librari"), P(":"), Num(5),
    P(","), Id("line"), P(":"), Num(19), P(","), Id("list"), P(":"), P("["), Num(11), P(","),
    Num(12), P(","), Num(13), P(","), Num(14), P(","), Num(15), P("]"), P(","), Id("locat"),
    P(":"), P("["), Num(1), P(","), Num(12), P("]"), P(","), Id("log"), P(":"), P("["), Num(1),
    P(","), Num(19), P("]"), P(","), Id("logger"), P(":"), P("["), Num(1), P(","), Num(19),
    P("]"), P(","), Id("maya"), P(":"), Num(12), P(","), Id("mayadcc"), P(":"), P("["), Num(0),
    P(","), Num(1), P(","), Num(8), P("]"), P(","), Id("messag"), P(":"), Num(19), P(","),
    Id("modul"), P(":"), P("["), Num(20), P(","), Num(21), P("]"), P(","), Id("msg"), P(":"),
    Num(19), P(","), Id("necessari"), P(":"), P("["), Num(1), P(","), Num(3), P("]"), P(","),
    Id("none"), P(":"), P("["), Num(3), P(","), Num(19), P("]"), P(","), Id("nuke"), P(":"),
    Num(11), P(","), Id("nuke_vers"), P(":"), Num(11), P(","), Id("nukedcc"), P(":"), P("["),
    Num(0), P(","), Num(1), P(","), Num(8), P("]"), P(","), Id("object"), P(":"), P("["), Num(3),
    P(","), Num(19), P("]"), P(","), Id("output"), P(":"), Num(19), P(","),
    Id("output_buffer_to_fil"), P(":"), Num(19), P(","), Id("packag"), P(":"), P("["), Num(20),
    P(","), Num(21), P("]"), P(","), Id("page"), P(":"), Num(20), P(","), Id("painter"), P(":"),
    Num(14), P(","), Id("painter_vers"), P(":"), Num(14), P(","), Id("param"), P(":"), P("["),
    Num(1), P(","), Num(11), P(","), Num(12), P(","), Num(13), P(","), Num(14), P(","), Num(15),
    P(","), Num(19), P("]"), P(","), Id("parent"), P(":"), Num(19), P(","), Id("path"), P(":"),
    P("["), Num(1), P(","), Num(11), P(","), Num(12), P(","), Num(13), P(","), Num(14), P(","),
    Num(15), P("]"), P(","), Id("photoshop"), P(":"), Num(12), P(","), Id("photoshop_vers"),
    P(":"), Num(12), P(","), Id("photoshopdcc"), P(":"), P("["), Num(0), P(","), Num(1), P(","),
    Num(8), P("]"), P(","), Id("platform"), P(":"), Num(3), P(","), Id("pyside2"), P(":"),
    P("["), Num(3), P(","), Num(19), P("]"), P(","), Id("qmetaobject"), P(":"), P("["), Num(3),
    P(","), Num(19), P("]"), P(","), Id("qset"), P(":"), Num(3), P(","), Id("qtcore"), P(":"),
    P("["), Num(3), P(","), Num(19), P("]"), P(","), Id("qtextedit"), P(":"), Num(19), P(","),
    Id("qtwidget"), P(":"), Num(19), P(","), Id("reload"), P(":"), Num(1), P(","), Id("search"),
    P(":"), Num(20), P(","), Id("set"), P(":"), Num(19), P(","), Id("set_debug_level"), P(":"),
    Num(19), P(","), Id("set_info_level"), P(":"), Num(19), P(","), Id("specif"), P(":"), Num(3),
    P(","), Id("staticmetaobject"), P(":"), P("["), Num(3), P(","), Num(19), P("]"), P(","),
    Id("store"), P(":"), Num(19), P(","), Id("str"), P(":"), P("["), Num(1), P(","), Num(11),
    P(","), Num(12), P(","), Num(13), P(","), Num(14), P(","), Num(15), P(","), Num(19), P("]"),
    P(","), Id("submodul"), P(":"), P("["), Num(0), P(","), Num(1), P("]"), P(","),
    Id("subpackag"), P(":"), Num(21), P(","), Id("substanc"), P(":"), P("["), Num(13), P(","),
    Num(14), P("]"), P(","), Id("substancedesignerdcc"), P(":"), P("["), Num(0), P(","), Num(1),
    P(","), Num(8), P("]"), P(","), Id("substancepainterdcc"), P(":"), P("["), Num(0), P(","),
    Num(1), P(","), Num(8), P("]"), P(","), Id("sys"), P(":"), Num(1), P(","), Id("updat"),
    P(":"), P("["), Num(0), P(","), Num(1), P(","), Num(2), P("]"), P(","), Id("update_path"),
    P(":"), Num(1), P(","), Id("used"), P(":"), Num(5), P(","), Id("user"), P(":"), Num(12),
    P(","), Id("util"), P(":"), P("["), Num(0), P(","), Num(1), P("]"), P(","), Id("where"),
    P(":"), P("["), Num(1), P(","), Num(12), P("]"), P(","), Id("whether"), P(":"), Num(1),
    P(","), Id("widget"), P(":"), P("["), Num(0), P(","), Num(1), P("]"), P(","), Id("window"),
    P(":"), Num(3), P(","), Id("write"), P(":"), Num(19), P(","), Id("write_error"), P(":"),
    Num(19), P(","), Id("write_ok"), P(":"), Num(19), P(","), Id("zbrush"), P(":"), Num(15),
    P(","), Id("zbrush_vers"), P(":"), Num(15), P(","), Id("zbrushdcc"), P(":"), P("["), Num(0),
    P(","), Num(1), P(","), Num(8), P("]"), P("}")>>

\* searchindex.js: the property  titles: ...  of the index literal (47 tokens).
titles ==
  <<Id("titles"), P(":"), P("["), Str("artellapipe package"), P(","),
    Str("artellapipe.launcher package"), P(","), Str("artellapipe.launcher.core package"),
    P(","), Str("artellapipe.launcher.core.config module"), P(","),
    Str("artellapipe.launcher.core.dccselector module"), P(","),
    Str("artellapipe.launcher.core.defines module"), P(","),
    Str("artellapipe.launcher.core.launcher module"), P(","),
    Str("artellapipe.launcher.core.updater module"), P(","),
    Str("artellapipe.launcher.dccs package"), P(","),
    Str("artellapipe.launcher.dccs.houdinidcc module"), P(","),
    Str("artellapipe.launcher.dccs.mayadcc module"), P(","),
    Str("artellapipe.launcher.dccs.nukedcc module"), P(","),
    Str("artellapipe.launcher.dccs.photoshopdcc module"), P(","),
    Str("artellapipe.launcher.dccs.substancedesignerdcc module"), P(","),
    Str("artellapipe.launcher.dccs.substancepainterdcc module"), P(","),
    Str("artellapipe.launcher.dccs.zbrushdcc module"), P(","),
    Str("artellapipe.launcher.utils package"), P(","),
    Str("artellapipe.launcher.utils.download module"), P(","),
    Str("artellapipe.launcher.widgets package"), P(","),
    Str("artellapipe.launcher.widgets.console module"), P(","),
    Str("Welcome to artellapipe-core documentation!"), P(","), Str("artellapipe"), P("]")>>

\* searchindex.js: the property  titleterms: ...  of the index literal (311 tokens).
titleterms ==
  <<Id("titleterms"), P(":"), P("{"), Id("artellapip"), P(":"), P("["), Num(0), P(","), Num(1),
    P(","), Num(2), P(","), Num(3), P(","), Num(4), P(","), Num(5), P(","), Num(6), P(","),
    Num(7), P(","), Num(8), P(","), Num(9), P(","), Num(10), P(","), Num(11), P(","), Num(12),
    P(","), Num(13), P(","), Num(14), P(","), Num(15), P(","), Num(16), P(","), Num(17), P(","),
    Num(18), P(","), Num(19), P(","), Num(20), P(","), Num(21), P("]"), P(","), Id("config"),
    P(":"), Num(3), P(","), Id("consol"), P(":"), Num(19), P(","), Id("content"), P(":"), P("["),
    Num(0), P(","), Num(1), P(","), Num(2), P(","), Num(8), P(","), Num(16), P(","), Num(18),
    P("]"), P(","), Id("core"), P(":"), P("["), Num(2), P(","), Num(3), P(","), Num(4), P(","),
    Num(5), P(","), Num(6), P(","), Num(7), P(","), Num(20), P("]"), P(","), Id("dcc"), P(":"),
    P("["), Num(8), P(","), Num(9), P(","), Num(10), P(","), Num(11), P(","), Num(12), P(","),
    Num(13), P(","), Num(14), P(","), Num(15), P("]"), P(","), Id("dccselector"), P(":"), Num(4),
    P(","), Id("defin"), P(":"), Num(5), P(","), Id("document"), P(":"), Num(20), P(","),
    Id("download"), P(":"), Num(17), P(","), Id("houdinidcc"), P(":"), Num(9), P(","),
    Id("indic"), P(":"), Num(20), P(","), Id("launcher"), P(":"), P("["), Num(1), P(","), Num(2),
    P(","), Num(3), P(","), Num(4), P(","), Num(5), P(","), Num(6), P(","), Num(7), P(","),
    Num(8), P(","), Num(9), P(","), Num(10), P(","), Num(11), P(","), Num(12), P(","), Num(13),
    P(","), Num(14), P(","), Num(15), P(","), Num(16), P(","), Num(17), P(","), Num(18), P(","),
    Num(19), P("]"), P(","), Id("mayadcc"), P(":"), Num(10), P(","), Id("modul"), P(":"), P("["),
    Num(0), P(","), Num(1), P(","), Num(2), P(","), Num(3), P(","), Num(4), P(","), Num(5),
    P(","), Num(6), P(","), Num(7), P(","), Num(8), P(","), Num(9), P(","), Num(10), P(","),
    Num(11), P(","), Num(12), P(","), Num(13), P(","), Num(14), P(","), Num(15), P(","), Num(16),
    P(","), Num(17), P(","), Num(18), P(","), Num(19), P("]"), P(","), Id("nukedcc"), P(":"),
    Num(11), P(","), Id("packag"), P(":"), P("["), Num(0), P(","), Num(1), P(","), Num(2),
    P(","), Num(8), P(","), Num(16), P(","), Num(18), P("]"), P(","), Id("photoshopdcc"), P(":"),
    Num(12), P(","), Id("submodul"), P(":"), P("["), Num(2), P(","), Num(8), P(","), Num(16),
    P(","), Num(18), P("]"), P(","), Id("subpackag"), P(":"), P("["), Num(0), P(","), Num(1),
    P("]"), P(","), Id("substancedesignerdcc"), P(":"), Num(13), P(","),
    Id("substancepainterdcc"), P(":"), Num(14), P(","), Id("tabl"), P(":"), Num(20), P(","),
    Id("updat"), P(":"), Num(7), P(","), Id("util"), P(":"), P("["), Num(16), P(","), Num(17),
    P("]"), P(","), Id("welcom"), P(":"), Num(20), P(","), Id("widget"), P(":"), P("["), Num(18),
    P(","), Num(19), P("]"), P(","), Id("zbrushdcc"), P(":"), Num(15), P("}")>>
---------------------------------------------------------------------------
(* The script: the call of Search.setIndex on the object literal made of   *)
(* the nine properties, in the order the file lists them.                  *)

Statement(d, e, f, o, on, ot, t, ti, tt) ==
  <<Id("Search"), P("."), Id("setIndex"), P("("), P("{")>>
    \o d  \o <<P(",")>> \o e  \o <<P(",")>> \o f  \o <<P(",")>>
    \o o  \o <<P(",")>> \o on \o <<P(",")>> \o ot \o <<P(",")>>
    \o t  \o <<P(",")>> \o ti \o <<P(",")>> \o tt
    \o <<P("}"), P(")")>>

---------------------------------------------------------------------------
(* Faulty variants of the script: the file as a slip of the generator      *)
(* would have written it.  Each differs from the file in one place.        *)

\* A property with its closing bracket moved after the extra tokens more.
Extended(prop, more) ==
  SubSeq(prop, 1, Len(prop) - 1) \o more \o <<prop[Len(prop)]>>

\* A property without the n tokens that precede its closing bracket.
Truncated(prop, n) ==
  SubSeq(prop, 1, Len(prop) - 1 - n) \o <<prop[Len(prop)]>>

\* filenames lacks its last entry, "modules.rst".
searchindex_filenames_short ==
  Statement(docnames, envversion, Truncated(filenames, 2), objects, objnames,
            objtypes, terms, titles, titleterms)

\* terms gains a posting for document 22, one past the last document.
searchindex_terms_ghost_doc ==
  Statement(docnames, envversion, filenames, objects, objnames, objtypes,
            Extended(terms, <<P(","), Id("zzz"), P(":"), P("["), Num(21), P(","),
                              Num(22), P("]")>>),
            titles, titleterms)

\* titleterms lists document 3 twice under one term.
searchindex_titleterms_repeat ==
  Statement(docnames, envversion, filenames, objects, objnames, objtypes,
            terms, titles,
            Extended(titleterms, <<P(","), Id("zzz"), P(":"), P("["), Num(3),
                                   P(","), Num(3), P("]")>>))

\* objtypes lacks its last entry, "4":"py:function".
searchindex_objtypes_short ==
  Statement(docnames, envversion, filenames, objects, objnames,
            Truncated(objtypes, 4), terms, titles, titleterms)

\* objects records ArtellaLauncherConfig.edit as a function: the type code
\* of edit:[3,3,1,""], token 256 of objects, is 4.
searchindex_edit_as_function ==
  Statement(docnames, envversion, filenames, [objects EXCEPT ![256] = Num(4)],
            objnames, objtypes, terms, titles, titleterms)

\* objects files the module artellapipe.launcher.core under document 3: the
\* document ID of core:[2,0,0,"-"], token 26 of objects, is 3.
searchindex_core_wrong_doc ==
  Statement(docnames, envversion, filenames, [objects EXCEPT ![26] = Num(3)],
            objnames, objtypes, terms, titles, titleterms)

\* objects gains the members of artellapipe.launcher.utils.download, a
\* module that objects does not record.
searchindex_orphan_prefix ==
  Statement(docnames, envversion, filenames,
            Extended(objects, <<P(","), Str("artellapipe.launcher.utils.download"),
                                P(":"), P("{"), Id("download_file"), P(":"), P("["),
                                Num(17), P(","), Num(4), P(","), Num(1), P(","),
                                Str(""), P("]"), P("}")>>),
            objnames, objtypes, terms, titles, titleterms)

\* envversion gains an entry whose value is the bare word None.
searchindex_bare_value ==
  Statement(docnames, Extended(envversion, <<P(","), Id("nbsphinx"), P(":"), Id("None")>>),
            filenames, objects, objnames, objtypes, terms, titles, titleterms)

\* The statement is written twice.
searchindex_twice ==
  Statement(docnames, envversion, filenames, objects, objnames, objtypes,
            terms, titles, titleterms)
    \o Statement(docnames, envversion, filenames, objects, objnames, objtypes,
                 terms, titles, titleterms)

searchindex ==
  Statement(docnames, envversion, filenames, objects, objnames, objtypes,
            terms, titles, titleterms)

---------------------------------------------------------------------------
(* JavaScript values, tagged by type.                                      *)

StrV(s) == [t |-> "str", v |-> s]
NumV(n) == [t |-> "num", v |-> n]
ArrV(s) == [t |-> "arr", v |-> s]
ObjV(f) == [t |-> "obj", v |-> f]
Null    == [t |-> "null"]

Digits == <<"0", "1", "2", "3", "4", "5", "6", "7", "8", "9">>

RECURSIVE ToString(_)
\* Number-to-string conversion of a non-negative integer, as applied to a
\* number used as a property key (objnames[type], a numeric literal key).
ToString(n) ==
  IF n < 10 THEN Digits[n + 1]
  ELSE ToString(n \div 10) \o Digits[(n % 10) + 1]

\* [[DefineOwnProperty]] of an object literal's member: a later member of
\* the same name replaces the earlier one.
Put(f, key, val) ==
  [x \in (DOMAIN f) \cup {key} |-> IF x = key THEN val ELSE f[x]]

---------------------------------------------------------------------------
(* Evaluation of the script.                                               *)

Tokens == searchindex
AtEnd  == pc > Len(Tokens)
Tok    == Tokens[pc]
IsP(c) == ~AtEnd /\ Tok.k = "p" /\ Tok.v = c
Top    == stack[Len(stack)]
Pop    == SubSeq(stack, 1, Len(stack) - 1)

Init ==
  /\ pc = 1
  /\ expect = "stmt"
  /\ stack = <<>>
  /\ callee = <<>>
  /\ arg = Null
  /\ index = Null
  /\ calls = <<>>

\* The property name a key token denotes.
KeyOf(tok) == IF tok.k = "num" THEN ToString(tok.v) ELSE tok.v

\* The value a literal token denotes.
ValueOf(tok) == IF tok.k = "num" THEN NumV(tok.v) ELSE StrV(tok.v)

\* A finished value val goes where the enclosing literals stk put it: the
\* next element of an array, the value of the pending key of an object, or
\* the argument of the call when no literal encloses it.
Attach(stk, val) ==
  IF Len(stk) = 0
    THEN /\ stack' = stk
         /\ arg' = val
         /\ expect' = "rparen"
    ELSE LET fr == stk[Len(stk)]
             nv == IF fr.kind = "arr" THEN Append(fr.val, val)
                   ELSE Put(fr.val, fr.key, val)
         IN /\ stack' = [stk EXCEPT ![Len(stk)] = [fr EXCEPT !.val = nv]]
            /\ arg' = arg
            /\ expect' = "more"

\* Search
Callee ==
  /\ expect = "stmt"
  /\ ~AtEnd
  /\ Tok.k = "id"
  /\ callee' = <<Tok.v>>
  /\ expect' = "member"
  /\ pc' = pc + 1
  /\ UNCHANGED <<stack, arg, index, calls>>

\* .setIndex
Member ==
  /\ expect = "member"
  /\ IsP(".")
  /\ pc + 1 <= Len(Tokens)
  /\ Tokens[pc + 1].k = "id"
  /\ callee' = Append(callee, Tokens[pc + 1].v)
  /\ pc' = pc + 2
  /\ UNCHANGED <<expect, stack, arg, index, calls>>

\* (
Arguments ==
  /\ expect = "member"
  /\ IsP("(")
  /\ expect' = "value"
  /\ pc' = pc + 1
  /\ UNCHANGED <<stack, callee, arg, index, calls>>

\* {
BeginObject ==
  /\ expect \in {"value", "first_value"}
  /\ IsP("{")
  /\ stack' = Append(stack, [kind |-> "obj", val |-> << >>, key |-> ""])
  /\ expect' = "first_key"
  /\ pc' = pc + 1
  /\ UNCHANGED <<callee, arg, index, calls>>

\* [
BeginArray ==
  /\ expect \in {"value", "first_value"}
  /\ IsP("[")
  /\ stack' = Append(stack, [kind |-> "arr", val |-> << >>, key |-> ""])
  /\ expect' = "first_value"
  /\ pc' = pc + 1
  /\ UNCHANGED <<callee, arg, index, calls>>

\* key :
PropertyName ==
  /\ expect \in {"key", "first_key"}
  /\ ~AtEnd
  /\ Tok.k \in {"str", "id", "num"}
  /\ pc + 1 <= Len(Tokens)
  /\ Tokens[pc + 1].k = "p"
  /\ Tokens[pc + 1].v = ":"
  /\ stack' = [stack EXCEPT ![Len(stack)].key = KeyOf(Tok)]
  /\ expect' = "value"
  /\ pc' = pc + 2
  /\ UNCHANGED <<callee, arg, index, calls>>

\* "text" or 123
Literal ==
  /\ expect \in {"value", "first_value"}
  /\ ~AtEnd
  /\ Tok.k \in {"str", "num"}
  /\ Attach(stack, ValueOf(Tok))
  /\ pc' = pc + 1
  /\ UNCHANGED <<callee, index, calls>>

\* ,
Comma ==
  /\ expect = "more"
  /\ IsP(",")
  /\ expect' = IF Top.kind = "obj" THEN "key" ELSE "value"
  /\ pc' = pc + 1
  /\ UNCHANGED <<stack, callee, arg, index, calls>>

\* }
EndObject ==
  /\ expect \in {"more", "first_key"}
  /\ IsP("}")
  /\ Top.kind = "obj"
  /\ Attach(Pop, ObjV(Top.val))
  /\ pc' = pc + 1
  /\ UNCHANGED <<callee, index, calls>>

\* ]
EndArray ==
  /\ expect \in {"more", "first_value"}
  /\ IsP("]")
  /\ Top.kind = "arr"
  /\ Attach(Pop, ArrV(Top.val))
  /\ pc' = pc + 1
  /\ UNCHANGED <<callee, index, calls>>

\* Search.setIndex(index): the widget keeps the index it is handed.
setIndex(idx) == idx

\* )
Call ==
  /\ expect = "rparen"
  /\ IsP(")")
  /\ calls' = Append(calls, [fn |-> callee, arg |-> arg])
  /\ index' = IF callee = <<"Search", "setIndex">> THEN setIndex(arg) ELSE index
  /\ callee' = << >>
  /\ arg' = Null
  /\ expect' = "stmt"
  /\ pc' = pc + 1
  /\ UNCHANGED stack

Next ==
  \/ Callee
  \/ Member
  \/ Arguments
  \/ BeginObject
  \/ BeginArray
  \/ PropertyName
  \/ Literal
  \/ Comma
  \/ EndObject
  \/ EndArray
  \/ Call

Spec == Init /\ [][Next]_vars

\* The script has been evaluated to its end.
Done == AtEnd /\ expect = "stmt"

---------------------------------------------------------------------------
(* The index the script hands to the widget.                               *)

\* The argument of the call the script has made.
Payload == calls[Len(calls)].arg

Loaded == Len(calls) > 0 /\ Payload.t = "obj"

\* One of the nine tables of the index.
Table(name) == Payload.v[name]

IsStr(val) == val.t = "str"
IsNum(val) == val.t = "num"
IsArr(val) == val.t = "arr"
IsObj(val) == val.t = "obj"

\* The number of documents.
NumDocs == Len(Table("docnames").v)

\* arr[i] of a JavaScript array, i counted from 0.
At(arr, i) == arr.v[i + 1]

---------------------------------------------------------------------------
\* C3: docnames, filenames and titles have the same length N, and for every
\* document ID i in 0..N-1 filenames[i] is docnames[i] followed by ".rst"
\* and titles[i] is a non-empty string.
C3_DocTablesAligned ==
  Loaded =>
    LET d  == Table("docnames")
        f  == Table("filenames")
        ti == Table("titles")
    IN /\ IsArr(d) /\ IsArr(f) /\ IsArr(ti)
       /\ Len(f.v) = Len(d.v)
       /\ Len(ti.v) = Len(d.v)
       /\ \A i \in 0 .. Len(d.v) - 1 :
            /\ IsStr(At(d, i)) /\ IsStr(At(f, i)) /\ IsStr(At(ti, i))
            /\ At(f, i).v = At(d, i).v \o ".rst"
            /\ At(ti, i).v # ""

\* The index is loaded and holds the 22 documents of the file, the last of
\* them "modules" in "modules.rst".
C3_Witness ==
  /\ Loaded
  /\ NumDocs = 22
  /\ At(Table("docnames"), 21).v = "modules"
  /\ At(Table("filenames"), 21).v = "modules.rst"

---------------------------------------------------------------------------
(* Postings: terms[t] and titleterms[t] are a document ID or an array of   *)
(* document IDs.                                                           *)

PostingTables == {"terms", "titleterms"}

IsDocId(val) == IsNum(val) /\ 0 <= val.v /\ val.v < NumDocs

\* C4: for every term in terms and in titleterms, every document ID in the
\* term's posting, a single integer or a list, is an integer i with
\* 0 <= i < length(docnames).
C4_PostingsInRange ==
  Loaded =>
    \A tb \in PostingTables :
      /\ IsObj(Table(tb))
      /\ \A term \in DOMAIN Table(tb).v :
           LET p == Table(tb).v[term]
           IN \/ IsDocId(p)
              \/ /\ IsArr(p)
                 /\ \A i \in 0 .. Len(p.v) - 1 : IsDocId(At(p, i))

\* Loaded, with a single-integer posting for the last document and a list
\* posting that ends in it.
C4_Witness ==
  /\ Loaded
  /\ Table("terms").v["subpackag"] = NumV(21)
  /\ IsArr(Table("titleterms").v["artellapip"])
  /\ At(Table("titleterms").v["artellapip"], 21) = NumV(NumDocs - 1)

\* C5: for every term in terms and in titleterms the posting is a single
\* document ID or a list of at least two document IDs in strictly ascending
\* order, so no document ID occurs twice in one posting.
C5_PostingsAreSets ==
  Loaded =>
    \A tb \in PostingTables :
      /\ IsObj(Table(tb))
      /\ \A term \in DOMAIN Table(tb).v :
           LET p == Table(tb).v[term]
           IN \/ IsNum(p)
              \/ /\ IsArr(p)
                 /\ Len(p.v) >= 2
                 /\ \A i \in 0 .. Len(p.v) - 1 : IsNum(At(p, i))
                 /\ \A i \in 0 .. Len(p.v) - 2 : At(p, i).v < At(p, i + 1).v
                 /\ \A i, j \in 0 .. Len(p.v) - 1 :
                      At(p, i).v = At(p, j).v => i = j

\* Loaded, with a two-element posting, a longer one and a single one.
C5_Witness ==
  /\ Loaded
  /\ Len(Table("terms").v["class"].v) = 2
  /\ Len(Table("terms").v["return"].v) = 7
  /\ IsNum(Table("terms").v["new"])
  /\ Len(Table("titleterms").v["core"].v) = 7

---------------------------------------------------------------------------
(* Objects: objects[prefix][name] = [document ID, type code, priority,     *)
(* anchor]; objnames and objtypes name the type codes.                     *)

Objects == Table("objects").v

Recorded(prefix, name) ==
  /\ prefix \in DOMAIN Objects
  /\ IsObj(Objects[prefix])
  /\ name \in DOMAIN Objects[prefix].v

Entry(prefix, name) == Objects[prefix].v[name]
DocOf(prefix, name)  == At(Entry(prefix, name), 0).v
TypeOf(prefix, name) == At(Entry(prefix, name), 1).v

\* Every object of the table, as <<prefix, name>>.
Entries ==
  UNION { { <<prefix, name>> : name \in DOMAIN Objects[prefix].v } :
          prefix \in DOMAIN Objects }

\* The fully qualified name of objects[prefix][name].
FullName(prefix, name) ==
  IF prefix = "" THEN name ELSE prefix \o "." \o name

\* The objects whose fully qualified name is the prefix key.
Owners(prefix) == { e \in Entries : FullName(e[1], e[2]) = prefix }

\* C6: every entry objects[P][n] = [doc, type, priority, anchor] has
\* 0 <= doc < length(docnames) and a type that is a key of both objnames and
\* objtypes; objnames and objtypes have the same keys, and for every key k
\* objtypes[k] is objnames[k][0] + ":" + objnames[k][1].
C6_ObjectsResolve ==
  Loaded =>
    LET names == Table("objnames")
        types == Table("objtypes")
    IN /\ IsObj(Table("objects")) /\ IsObj(names) /\ IsObj(types)
       /\ \A prefix \in DOMAIN Objects :
            /\ IsObj(Objects[prefix])
            /\ \A name \in DOMAIN Objects[prefix].v :
                 LET e == Entry(prefix, name)
                 IN /\ IsArr(e)
                    /\ Len(e.v) = 4
                    /\ IsDocId(At(e, 0))
                    /\ IsNum(At(e, 1))
                    /\ At(e, 1).v >= 0
                    /\ ToString(At(e, 1).v) \in DOMAIN names.v
                    /\ ToString(At(e, 1).v) \in DOMAIN types.v
       /\ DOMAIN names.v = DOMAIN types.v
       /\ \A key \in DOMAIN names.v :
            /\ IsStr(types.v[key])
            /\ IsArr(names.v[key])
            /\ Len(names.v[key].v) >= 2
            /\ types.v[key].v =
                 At(names.v[key], 0).v \o ":" \o At(names.v[key], 1).v

\* Loaded, with a function of document 15 recorded and type 4 named
\* py:function by both tables.
C6_Witness ==
  /\ Loaded
  /\ Recorded("artellapipe.launcher.dccs.zbrushdcc", "get_installation_paths")
  /\ DocOf("artellapipe.launcher.dccs.zbrushdcc", "get_installation_paths") = 15
  /\ TypeOf("artellapipe.launcher.dccs.zbrushdcc", "get_installation_paths") = 4
  /\ Table("objtypes").v[ToString(4)] = StrV("py:function")
  /\ At(Table("objnames").v[ToString(4)], 1) = StrV("function")

DccPackage == "artellapipe.launcher.dccs"

DccModules ==
  {"houdinidcc", "mayadcc", "nukedcc", "photoshopdcc", "substancedesignerdcc",
   "substancepainterdcc", "zbrushdcc"}

DccHelpers == {"get_installation_paths", "get_executables_from_installation_path"}

\* C7: for every DCC module with a document in the index, objects has an
\* entry for the module's path holding both get_installation_paths and
\* get_executables_from_installation_path, each with type code 4
\* (py:function) and with the document ID of the module's own document.
C7_DccHelpersRecorded ==
  Loaded =>
    \A m \in DccModules :
      \A i \in 0 .. NumDocs - 1 :
        At(Table("docnames"), i).v = FullName(DccPackage, m) =>
          \A helper \in DccHelpers :
            /\ Recorded(FullName(DccPackage, m), helper)
            /\ TypeOf(FullName(DccPackage, m), helper) = 4
            /\ DocOf(FullName(DccPackage, m), helper) = i

ConfigModule  == "artellapipe.launcher.core.config"
ConsoleModule == "artellapipe.launcher.widgets.console"

\* The class and the methods of it that the interface names.
Wrappers ==
  { <<ConfigModule, "ArtellaLauncherConfig", {"edit"}>>,
    <<ConsoleModule, "ArtellaLauncherConsole",
      {"write", "write_error", "write_ok", "set_debug_level", "set_info_level"}>> }

\* C8: objects records ArtellaLauncherConfig and ArtellaLauncherConsole with
\* type code 1 (py:class), and ArtellaLauncherConfig.edit and
\* ArtellaLauncherConsole.write, write_error, write_ok, set_debug_level and
\* set_info_level each with type code 3 (py:method) and the document ID of
\* the class that owns it.
C8_WrappersAreMethods ==
  Loaded =>
    \A w \in Wrappers :
      /\ Recorded(w[1], w[2])
      /\ TypeOf(w[1], w[2]) = 1
      /\ \A method \in w[3] :
           /\ Recorded(FullName(w[1], w[2]), method)
           /\ TypeOf(FullName(w[1], w[2]), method) = 3
           /\ DocOf(FullName(w[1], w[2]), method) = DocOf(w[1], w[2])

\* Loaded, with the two classes in documents 3 and 19 and a method of each.
C8_Witness ==
  /\ Loaded
  /\ Recorded(ConfigModule, "ArtellaLauncherConfig")
  /\ DocOf(ConfigModule, "ArtellaLauncherConfig") = 3
  /\ Recorded(FullName(ConfigModule, "ArtellaLauncherConfig"), "edit")
  /\ Recorded(ConsoleModule, "ArtellaLauncherConsole")
  /\ DocOf(ConsoleModule, "ArtellaLauncherConsole") = 19
  /\ Recorded(FullName(ConsoleModule, "ArtellaLauncherConsole"), "write_ok")

---------------------------------------------------------------------------
(* Parents: the object a prefix key names, and the module around it.       *)

\* How far a chain of parents can go: the number of prefix keys.
Depth == Cardinality(DOMAIN Objects)

RECURSIVE ModuleDocs(_, _)
\* The document IDs of the module entries that enclose the members of
\* prefix: the owner of prefix when it is a module, else the module around
\* that owner, found in at most fuel steps.
ModuleDocs(prefix, fuel) ==
  IF fuel = 0 THEN {}
  ELSE UNION { IF TypeOf(e[1], e[2]) = 0
                 THEN {DocOf(e[1], e[2])}
                 ELSE ModuleDocs(e[1], fuel - 1) : e \in Owners(prefix) }

RECURSIVE ReachesRoot(_, _)
\* Following parents from prefix arrives at the empty prefix within fuel
\* steps.
ReachesRoot(prefix, fuel) ==
  \/ prefix = ""
  \/ /\ fuel > 0
     /\ \E e \in Owners(prefix) : ReachesRoot(e[1], fuel - 1)

\* C9: for every entry of objects with type code 0 (py:module),
\* docnames[doc ID of the entry] is the module's fully qualified name; for
\* every entry with another type code, its document ID is the document ID of
\* the module entry that encloses it.
C9_EntriesPointAtModuleDoc ==
  Loaded =>
    \A e \in Entries :
      IF TypeOf(e[1], e[2]) = 0
        THEN /\ IsDocId(At(Entry(e[1], e[2]), 0))
             /\ At(Table("docnames"), DocOf(e[1], e[2])).v = FullName(e[1], e[2])
        ELSE ModuleDocs(e[1], Depth) = {DocOf(e[1], e[2])}

\* Loaded, with a module entry, a function directly under a module and a
\* method under a class under a module.
C9_Witness ==
  /\ Loaded
  /\ <<"artellapipe.launcher.widgets", "console">> \in Entries
  /\ TypeOf("artellapipe.launcher.widgets", "console") = 0
  /\ <<"artellapipe.launcher", "init">> \in Entries
  /\ TypeOf("artellapipe.launcher", "init") = 4
  /\ <<FullName(ConsoleModule, "ArtellaLauncherConsole"), "write">> \in Entries
  /\ ModuleDocs(FullName(ConsoleModule, "ArtellaLauncherConsole"), Depth) = {19}

\* C10: every non-empty prefix key P of objects is itself registered as an
\* object: with P = Q + "." + n (or Q = "" and n = P), objects[Q][n] exists
\* and has type code 0 (py:module) or 1 (py:class); so following parents
\* from any object arrives at the empty prefix.
C10_ClosedUnderParents ==
  Loaded =>
    \A prefix \in DOMAIN Objects :
      /\ prefix # "" =>
           \E e \in Owners(prefix) : TypeOf(e[1], e[2]) \in {0, 1}
      /\ ReachesRoot(prefix, Depth)

\* Loaded, with the empty prefix, a prefix owned by a module and a prefix
\* owned by a class four parents away from the empty prefix.
C10_Witness ==
  /\ Loaded
  /\ "" \in DOMAIN Objects
  /\ Owners("artellapipe") = {<<"", "artellapipe">>}
  /\ FullName(ConfigModule, "ArtellaLauncherConfig") \in DOMAIN Objects
  /\ TypeOf(ConfigModule, "ArtellaLauncherConfig") = 1
  /\ ~ReachesRoot(FullName(ConfigModule, "ArtellaLauncherConfig"), 4)
  /\ ReachesRoot(FullName(ConfigModule, "ArtellaLauncherConfig"), 5)

---------------------------------------------------------------------------
(* The syntax of the payload and the effect of loading the file.           *)

AtKey   == expect \in {"key", "first_key"} /\ ~IsP("}")
AtValue == expect \in {"value", "first_value"} /\ ~IsP("]")

\* The token at pc starts a string, a number, an array or an object.
StartsValue == ~AtEnd /\ (Tok.k \in {"str", "num"} \/ IsP("[") \/ IsP("{"))

\* C1 as stated: the argument of Search.setIndex is well-formed JSON: every
\* object key at every nesting level is a double-quoted string and every
\* value is a JSON string, number, array or object.
C1_PayloadIsJSON ==
  /\ AtKey => ~AtEnd /\ Tok.k = "str"
  /\ AtValue => StartsValue
  /\ Done \/ ENABLED Next

\* C1, amended: the argument of Search.setIndex is a well-formed JavaScript
\* object literal: every object key at every nesting level is a
\* double-quoted string or a bare identifier, and every value is a string,
\* a number, an array or an object.
C1_PayloadIsObjectLiteral ==
  /\ AtKey => ~AtEnd /\ Tok.k \in {"str", "id"}
  /\ AtValue => StartsValue
  /\ Done \/ ENABLED Next

\* The evaluation stands at a bare key two literals deep, zbrushdcc of
\* titleterms, with a quoted key of the same object already read.
C1_Witness ==
  /\ AtKey
  /\ Tok.k = "id"
  /\ Tok.v = "zbrushdcc"
  /\ Len(stack) = 2
  /\ "sphinx.ext.todo" \in DOMAIN stack[1].val["envversion"].v

IndexKeys ==
  {"docnames", "envversion", "filenames", "objects", "objnames", "objtypes",
   "terms", "titles", "titleterms"}

\* C2: Search.setIndex is invoked exactly once, with the index table, and no
\* other function is called; the index held by Search is unset before the
\* call, is the table after it, is written by the call alone and never
\* changes again.
C2_ConsumedOnce ==
  /\ [](/\ Len(calls) <= 1
        /\ \A i \in 1 .. Len(calls) : calls[i].fn = <<"Search", "setIndex">>
        /\ Len(calls) = 0 => index.t = "null"
        /\ Len(calls) = 1 =>
             /\ index = calls[1].arg
             /\ index.t = "obj"
             /\ DOMAIN index.v = IndexKeys
        /\ Done => Len(calls) = 1)
  /\ [][/\ index' # index => Len(calls') = Len(calls) + 1
        /\ index.t # "null" => index' = index]_vars

\* The script has run to its end, has made its one call, and the widget
\* holds an index of 22 documents.
C2_Witness ==
  /\ Done
  /\ Len(calls) = 1
  /\ index.t = "obj"
  /\ Len(index.v["docnames"].v) = 22

=============================================================================
